---- MODULE Spec2Model ----
(***************************************************************************)
(* Model of the MSM data-preparation and invocation pipeline:              *)
(*   - prepare_darrays / is_same_coordsys (smoothness_optimization.py),    *)
(*   - MSMModel.fit / MSMModel.transform (msm/model.py),                   *)
(*   - the test block of the lambda sweep (smoothness_optimization.py).    *)
(***************************************************************************)
EXTENDS Integers, Sequences, FiniteSets, TLC

(***************************************************************************)
(* Bounds of the model.                                                    *)
(***************************************************************************)
\* longest list of data arrays handed to prepare_darrays
MaxLen == 2
\* xform matrices range over the identity and MaxXform translations
MaxXform == 1
\* number of names tempfile.mkdtemp can draw from in one directory
MaxTmp == 2

(***************************************************************************)
(* Data arrays and coordinate systems.                                     *)
(***************************************************************************)
\* nib.nifti1.data_type_codes.code[...]
NIFTI_TYPE_FLOAT32 == "NIFTI_TYPE_FLOAT32"
NIFTI_TYPE_FLOAT64 == "NIFTI_TYPE_FLOAT64"
\* nib.nifti1.intent_codes.code[...]
NIFTI_INTENT_POINTSET == "NIFTI_INTENT_POINTSET"
NIFTI_INTENT_NONE == "NIFTI_INTENT_NONE"

\* Python's None, and a present value, for optional fields.
None == << >>
Some(x) == << x >>

\* 4x4 transform matrices, row-major: the identity (k = 0), and the identity
\* with a translation of 2 along axis k (entry 4k).
XformOf(k) ==
  [i \in 1..16 |-> IF k > 0 /\ i = 4 * k THEN 2 ELSE IF i \in {1, 6, 11, 16} THEN 1 ELSE 0]
Xforms == {XformOf(k) : k \in 0..MaxXform}

\* dataspace / xformspace codes (NIFTI_XFORM_UNKNOWN, NIFTI_XFORM_TALAIRACH)
Spaces == {0, 3}

CoordsysSet == [dataspace : Spaces, xformspace : Spaces, xform : Xforms]

\* np.all(c1.xform == c2.xform): elementwise comparison, then conjunction
XformAllEqual(x1, x2) == \A i \in 1..16 : x1[i] = x2[i]

is_same_coordsys_ignoring_xform(c1, c2) ==
  /\ c1.dataspace = c2.dataspace
  /\ c1.xformspace = c2.xformspace

is_same_coordsys(c1, c2) ==
  /\ c1.dataspace = c2.dataspace
  /\ c1.xformspace = c2.xformspace
  /\ XformAllEqual(c1.xform, c2.xform)

\* float32 has a 24-bit significand: integers up to 2^24 are exact, those in
\* (2^24, 2^25) are rounded to a multiple of 2, ties to the even significand.
Two24 == 16777216
Float32Of(x) ==
  IF x <= Two24 \/ x % 2 = 0 THEN x
  ELSE IF ((x - 1) \div 2) % 2 = 0 THEN x - 1 ELSE x + 1

\* ndarray.astype(np.float32)
AsFloat32(data) ==
  [dtype |-> "float32", v |-> [i \in DOMAIN data.v |-> Float32Of(data.v[i])]]

\* per-vertex values before conversion (one is not representable in float32)
Vertices == {1, 2}
Data64 == [dtype |-> "float64", v |-> [i \in Vertices |-> IF i = 1 THEN Two24 + 3 ELSE 5]]
Data32 == [dtype |-> "float32", v |-> [i \in Vertices |-> IF i = 1 THEN 7 ELSE Two24 + 2]]
RawData == {Data64, Data32}

DatatypeOf(dtype) ==
  IF dtype = "float32" THEN NIFTI_TYPE_FLOAT32 ELSE NIFTI_TYPE_FLOAT64
IntentOf(dtype) ==
  IF dtype = "float32" THEN NIFTI_INTENT_POINTSET ELSE NIFTI_INTENT_NONE

\* a GiftiDataArray as loaded from a file
Darray(data, cs) ==
  [data |-> data, datatype |-> DatatypeOf(data.dtype),
   intent |-> IntentOf(data.dtype), coordsys |-> cs]

Darrays == {Darray(d, cs) : d \in RawData, cs \in {None} \cup {Some(c) : c \in CoordsysSet}}

SeqsUpTo(S, n) == UNION {[1..k -> S] : k \in 0..n}

\* body of the loop of prepare_darrays up to the coordsys check
Coerce(d) ==
  [d EXCEPT !.data = AsFloat32(d.data),
            !.datatype = NIFTI_TYPE_FLOAT32,
            !.intent = NIFTI_INTENT_POINTSET]

Mismatch(d, coordsys) ==
  d.coordsys # None /\ ~is_same_coordsys(d.coordsys[1], coordsys)

\* prepare_darrays from element i on; the list is mutated in place, so the
\* result carries the list as it stands when the loop ends or raises.
RECURSIVE PrepareFrom(_, _, _)
PrepareFrom(ds, coordsys, i) ==
  IF i > Len(ds) THEN [darrays |-> ds, raised |-> FALSE]
  ELSE LET d == Coerce(ds[i]) IN
       IF Mismatch(d, coordsys)
       THEN [darrays |-> [ds EXCEPT ![i] = d], raised |-> TRUE]
       ELSE PrepareFrom([ds EXCEPT ![i] = [d EXCEPT !.coordsys = Some(coordsys)]],
                        coordsys, i + 1)

\* variant: the coordsys is checked but never assigned
RECURSIVE PrepareFromNoAssign(_, _, _)
PrepareFromNoAssign(ds, coordsys, i) ==
  IF i > Len(ds) THEN [darrays |-> ds, raised |-> FALSE]
  ELSE LET d == Coerce(ds[i]) IN
       IF Mismatch(d, coordsys)
       THEN [darrays |-> [ds EXCEPT ![i] = d], raised |-> TRUE]
       ELSE PrepareFromNoAssign([ds EXCEPT ![i] = d], coordsys, i + 1)

prepare_darrays_no_assign(ds, coordsys) == PrepareFromNoAssign(ds, coordsys, 1)

\* variant: the coordsys is checked before the element is coerced
RECURSIVE PrepareFromCheckFirst(_, _, _)
PrepareFromCheckFirst(ds, coordsys, i) ==
  IF i > Len(ds) THEN [darrays |-> ds, raised |-> FALSE]
  ELSE IF Mismatch(ds[i], coordsys)
       THEN [darrays |-> ds, raised |-> TRUE]
       ELSE PrepareFromCheckFirst(
              [ds EXCEPT ![i] = [Coerce(ds[i]) EXCEPT !.coordsys = Some(coordsys)]],
              coordsys, i + 1)

prepare_darrays_check_first(ds, coordsys) == PrepareFromCheckFirst(ds, coordsys, 1)

prepare_darrays(ds, coordsys) == PrepareFrom(ds, coordsys, 1)

(***************************************************************************)
(* Errors: the exception class, its message, and the command it quotes.    *)
(***************************************************************************)
Error(type, text, cmd) == [type |-> type, text |-> text, cmd |-> cmd]
NoError == Error("", "", None)

\* raise ValueError(...) of prepare_darrays: the CoordinateSystemMismatch of
\* the design
CoordinateSystemMismatch ==
  Error("ValueError", "Provided data is in different coordsys than the mesh.", None)

\* raise RuntimeError(f"Failed to run MSM with command:\n{cmd}"): the
\* ExternalToolFailure of the design
ExternalToolFailure_without_cmd(cmd) ==
  Error("RuntimeError", "Failed to run MSM with command:", None)

ExternalToolFailure(cmd) ==
  Error("RuntimeError", "Failed to run MSM with command:", Some(cmd))

\* nib.load of a path that does not exist: the OutputNotFound of the design
OutputNotFound == Error("FileNotFoundError", "No such file or no access", None)

\* self.coordsys read on a model that was never fitted or loaded
NotFitted == Error("AttributeError", "'MSMModel' object has no attribute 'coordsys'", None)

(***************************************************************************)
(* Directories, paths and files.                                           *)
(***************************************************************************)
\* a directory: parent/sub, or its temporary child number tmp when tmp > 0
Dir(parent, sub, tmp) == [parent |-> parent, sub |-> sub, tmp |-> tmp]
Cwd == Dir("./", "", 0)
DataDir == Dir("./data/", "", 0)
OutputDir == Dir("output_dir/", "", 0)

\* Path(dir) / (stem + tag + ext)
Path(dir, stem, tag, ext) == [dir |-> dir, stem |-> stem, tag |-> tag, ext |-> ext]

\* f"{prefix}.func.gii", the file the resampling binary writes for a prefix
FuncGii(prefix) == [prefix EXCEPT !.ext = ".func.gii"]

\* tempfile.mkdtemp under directory d: a name that does not exist yet
mkdtemp_fixed_name(d, existing) == {[d EXCEPT !.tmp = 1]}

mkdtemp(d, existing) == {[d EXCEPT !.tmp = n] : n \in 1..MaxTmp} \ existing

\* image.to_filename(p)
WriteFile(files, p, image) ==
  [q \in DOMAIN files \cup {p} |-> IF q = p THEN image ELSE files[q]]

\* TemporaryDirectory.cleanup(): the directory goes with everything in it
RemoveTree(files, d) == [q \in {r \in DOMAIN files : r.dir # d} |-> files[q]]

Image(ds) == [darrays |-> ds]

MeshCoordsys == [dataspace |-> 0, xformspace |-> 3, xform |-> XformOf(0)]
OtherCoordsys == [dataspace |-> 0, xformspace |-> 3, xform |-> XformOf(1)]

MeshFile == Path(DataDir, "lh.sphere", "", ".gii")
MissingMeshFile == Path(DataDir, "missing.sphere", "", ".gii")
SourceFile(tag) == Path(DataDir, "sub-07", tag, "")
ReferenceFile(tag) == Path(DataDir, "sub-04", tag, "")
TransformedMeshFile(d) == Path(d, "transformed_in_mesh", "", ".surf.gii")
TransformedFuncFile(d) == Path(d, "transformed_and_reprojected", "", ".func.gii")

\* the contrast maps on disk: one without coordsys, one in the mesh's
\* coordsys, one in another coordsys, one with two data arrays
Tags == {"_story_lh.gii", "_math_lh.gii", "_other_lh.gii", "_pair_lh.gii"}
ContrastImage(tag) ==
  CASE tag = "_story_lh.gii" -> Image(<<Darray(Data64, None)>>)
    [] tag = "_math_lh.gii" -> Image(<<Darray(Data32, Some(MeshCoordsys))>>)
    [] tag = "_other_lh.gii" -> Image(<<Darray(Data64, Some(OtherCoordsys))>>)
    [] OTHER -> Image(<<Darray(Data32, None), Darray(Data64, Some(MeshCoordsys))>>)

(***************************************************************************)
(* Files on disk before anything runs, and what the tools write.           *)
(***************************************************************************)
\* epsilons of the sweep, as str(epsilon) spells them
epsilons == <<"0.01", "0.1", "1", "10", "100", "1000">>

\* 'test_outputs_lambda' + str(epsilon)
SweepDir(e) == Dir("test_outputs_lambda", epsilons[e], 0)

\* tempfile.gettempdir() joined with the prefix './'
SweepTmpBase == Dir("/tmp/", "./", 0)

MeshImage == Image(<<Darray(Data32, Some(MeshCoordsys))>>)
ReferenceImage(tag) ==
  IF tag = "_story_lh.gii" THEN Image(<<Darray(Data32, None)>>)
  ELSE Image(<<Darray(Data64, Some(MeshCoordsys))>>)

InitDirs == {Cwd, DataDir, OutputDir} \cup {SweepDir(e) : e \in DOMAIN epsilons}

InitPaths ==
  {MeshFile} \cup {SourceFile(tag) : tag \in Tags} \cup {ReferenceFile(tag) : tag \in Tags}
    \cup {TransformedMeshFile(SweepDir(e)) : e \in DOMAIN epsilons}

InitFiles ==
  [p \in InitPaths |->
     CASE p.stem = "sub-07" -> ContrastImage(p.tag)
       [] p.stem = "sub-04" -> ReferenceImage(p.tag)
       [] OTHER -> MeshImage]

\* what the resampling binary computes from one data array: the values moved
\* to the vertices the deformation maps them to
ReverseVertices(data) ==
  [data EXCEPT !.v = [i \in Vertices |-> data.v[Cardinality(Vertices) + 1 - i]]]
Resample(image) ==
  Image([i \in DOMAIN image.darrays |->
           [image.darrays[i] EXCEPT !.data = ReverseVertices(image.darrays[i].data)]])

\* ' '.join([msmresample, deformed mesh, output prefix, -labels input, -project mesh])
ResampleCmd(deformed, prefix, labels, project) ==
  [exe |-> "{FSL_PATH}/bin/msmresample", deformed |-> deformed, prefix |-> prefix,
   labels |-> labels, project |-> project]

\* os.system(cmd) for the resampling binary: the wait status and the files
\* afterwards; the binary may fail, succeed, or exit 0 without its output
ExitFailure == 256
os_system(c, files, ds) ==
  {[exit_code |-> ExitFailure, files |-> files]} \cup
  (IF {c.deformed, c.labels, c.project} \subseteq DOMAIN files /\ c.prefix.dir \in ds
   THEN {[exit_code |-> 0, files |-> files],
         [exit_code |-> 0,
          files |-> WriteFile(files, FuncGii(c.prefix), Resample(files[c.labels]))]}
   ELSE {})

\* run_msm(in_data_list, in_mesh, ref_data_list, output_dir): starts the
\* registration binary; on exit 0 the two outputs are in output_dir
run_msm(in_data_list, in_mesh, ref_data_list, output_dir, files) ==
  {[raised |-> TRUE, files |-> files, ret |-> None]} \cup
  (IF (\A i \in DOMAIN in_data_list : in_data_list[i] \in DOMAIN files)
      /\ (\A i \in DOMAIN ref_data_list : ref_data_list[i] \in DOMAIN files)
      /\ in_mesh \in DOMAIN files
   THEN {[raised |-> FALSE,
          files |-> WriteFile(
                      WriteFile(files, TransformedMeshFile(output_dir), files[in_mesh]),
                      TransformedFuncFile(output_dir), Resample(files[in_data_list[1]])),
          ret |-> Some([transformed_mesh |-> TransformedMeshFile(output_dir),
                        transformed_func |-> TransformedFuncFile(output_dir)])]}
   ELSE {})

MsmCmd == [exe |-> "{FSL_PATH}/bin/msm"]

(***************************************************************************)
(* Arguments of fit.                                                       *)
(***************************************************************************)
\* a contrast map handed to fit: the values, and the coordinate system the
\* caller's array is expressed in (an ndarray has no field for it)
Contrast(data, cs) == [data |-> data, coordsys |-> cs]

SourceMaps == <<Contrast(Data64, MeshCoordsys), Contrast(Data32, MeshCoordsys)>>
TargetMapsChoices ==
  { <<Contrast(Data32, MeshCoordsys), Contrast(Data64, MeshCoordsys)>>,
    <<Contrast(Data32, OtherCoordsys), Contrast(Data64, OtherCoordsys)>> }
MeshChoices == {MeshFile, MissingMeshFile}

\* nib.gifti.gifti.GiftiDataArray(data=, datatype=, intent=, coordsys=)
GiftiDataArray(data, datatype, intent, cs) ==
  [data |-> data, datatype |-> datatype, intent |-> intent, coordsys |-> cs]

\* str(i) for the indices of enumerate
IndexStr(i) == <<"0", "1", "2", "3">>[i + 1]

\* the fields of an MSMModel that fit sets; None while the attribute is unset
UnfittedModel ==
  [transformed_mesh |-> None, transformed_mesh_path |-> None,
   transformed_func |-> None, mesh_path |-> None, coordsys |-> None]

\* the two concurrent callers of transform
Threads == {1, 2}

\* test.json: input_fname -> reference_fname
TestPair(tag) == [input |-> SourceFile(tag), reference |-> ReferenceFile(tag)]
TestDataChoices ==
  { <<TestPair("_story_lh.gii")>>,
    <<TestPair("_story_lh.gii"), TestPair("_math_lh.gii")>>,
    <<TestPair("_math_lh.gii"), TestPair("_other_lh.gii")>> }

(***************************************************************************)
(* State.                                                                  *)
(***************************************************************************)
VARIABLES
  \* a call of prepare_darrays and a second call on its result
  darrays,     \* the list passed to prepare_darrays (mutated in place)
  coordsys,    \* the target coordsys passed to prepare_darrays
  prepPc,      \* "input", "returned", "raised", "returned2", "raised2"
  prepErr,     \* the error raised by the last call
  darrays0,    \* the list as it was before the first call
  darrays1,    \* the list as it was after the first call
  \* the disk
  fs,          \* path -> image, for the files that exist
  dirs,        \* the directories that exist
  \* one MSMModel and a caller of fit / load_model
  mdl,         \* the model's fitted-alignment fields
  mdlBefore,   \* mdl as it was when the running fit was called
  fitPc,       \* "idle", "entered", "source", "target", "run", "registered",
               \* "returned", "raised"
  fitArgs,     \* source_data, target_data, mesh_file of the running fit
  fitDir,      \* dir_name of fit's TemporaryDirectory
  fitCoordsys, \* coordsys read from the mesh
  fitI,        \* i of the enumerate loops
  fitNames,    \* source_filenames, target_filenames
  fitRet,      \* what run_msm returned
  fitErr,      \* the error fit raised
  msmStarted,  \* run_msm has been invoked by the running fit
  \* the callers of transform
  tpc,         \* "idle", "loaded", "prepared", "in_tmp", "written", "ran",
               \* "returned", "raised"
  source_data, \* path given to transform
  data_input,  \* data_input.darrays
  dir_name,    \* dir_name of transform's TemporaryDirectory
  cmd,         \* the command given to os.system
  exit_code,   \* what os.system returned
  result,      \* transformed_contrast_map
  err,         \* the error transform raised
  \* the sweep script
  sweepPc,     \* "epsilon", "items", "written", "ran", "done", "raised"
  test_data,   \* the test split
  epsilon,     \* index of the epsilon of the running iteration
  item,        \* index of the test pair in hand
  sweepTmp,    \* the directory TemporaryDirectory(prefix='./') created
  sweepInput,  \* data_input.darrays
  sweepCmd,    \* the command given to os.system
  sweepExit,   \* what os.system returned
  transformed_data, \* the image loaded from the binary's output
  sweepErr,    \* the error that ended the script
  scored       \* per epsilon, the number of test pairs added to the score

prepVars == <<darrays, coordsys, prepPc, prepErr, darrays0, darrays1>>
diskVars == <<fs, dirs>>
fitVars == <<mdl, mdlBefore, fitPc, fitArgs, fitDir, fitCoordsys, fitI, fitNames,
             fitRet, fitErr, msmStarted>>
threadVars == <<tpc, source_data, data_input, dir_name, cmd, exit_code, result, err>>
sweepVars == <<sweepPc, test_data, epsilon, item, sweepTmp, sweepInput, sweepCmd,
               sweepExit, transformed_data, sweepErr, scored>>
vars == <<prepVars, diskVars, fitVars, threadVars, sweepVars>>

\* nothing of the kind is running
PrepAbsent ==
  /\ darrays = << >> /\ coordsys = MeshCoordsys /\ prepPc = "absent"
  /\ prepErr = NoError /\ darrays0 = << >> /\ darrays1 = << >>

FitInit(pc) ==
  /\ mdl = UnfittedModel /\ mdlBefore = UnfittedModel /\ fitPc = pc
  /\ fitArgs = None /\ fitDir = None /\ fitCoordsys = None /\ fitI = 0
  /\ fitNames = [source |-> << >>, target |-> << >>]
  /\ fitRet = None /\ fitErr = NoError /\ msmStarted = FALSE

ThreadsInit(pc) ==
  /\ tpc = [t \in Threads |-> pc]
  /\ source_data = [t \in Threads |-> None]
  /\ data_input = [t \in Threads |-> << >>]
  /\ dir_name = [t \in Threads |-> None]
  /\ cmd = [t \in Threads |-> None]
  /\ exit_code = [t \in Threads |-> None]
  /\ result = [t \in Threads |-> None]
  /\ err = [t \in Threads |-> NoError]

SweepInit(pc, td) ==
  /\ sweepPc = pc /\ test_data = td /\ epsilon = 1 /\ item = 1
  /\ sweepTmp = None /\ sweepInput = << >> /\ sweepCmd = None /\ sweepExit = None
  /\ transformed_data = None /\ sweepErr = NoError
  /\ scored = [e \in DOMAIN epsilons |-> 0]

DiskInit == fs = InitFiles /\ dirs = InitDirs

\* inputs of prepare_darrays
InitPrep ==
  /\ darrays \in SeqsUpTo(Darrays, MaxLen)
  /\ coordsys \in CoordsysSet
  /\ prepPc = "input"
  /\ prepErr = NoError
  /\ darrays0 = darrays
  /\ darrays1 = << >>
  /\ DiskInit /\ FitInit("absent") /\ ThreadsInit("absent") /\ SweepInit("absent", << >>)

\* a process that has constructed an MSMModel
InitModel ==
  /\ PrepAbsent /\ DiskInit /\ FitInit("idle") /\ ThreadsInit("idle")
  /\ SweepInit("absent", << >>)

\* the sweep script at the top of its epsilon loop
InitSweep ==
  /\ PrepAbsent /\ DiskInit /\ FitInit("absent") /\ ThreadsInit("absent")
  /\ \E td \in TestDataChoices : SweepInit("epsilon", td)

Init == InitModel \/ InitSweep

(***************************************************************************)
(* prepare_darrays as a call.                                              *)
(***************************************************************************)
\* prepare_darrays(darrays, coordsys)
PrepCall ==
  /\ prepPc = "input"
  /\ LET r == prepare_darrays(darrays, coordsys) IN
       /\ darrays' = r.darrays
       /\ darrays1' = r.darrays
       /\ prepPc' = IF r.raised THEN "raised" ELSE "returned"
       /\ prepErr' = IF r.raised THEN CoordinateSystemMismatch ELSE NoError
  /\ UNCHANGED <<coordsys, darrays0, diskVars, fitVars, threadVars, sweepVars>>

\* prepare_darrays(prepare_darrays(darrays, coordsys), coordsys)
PrepCallAgain ==
  /\ prepPc = "returned"
  /\ LET r == prepare_darrays(darrays, coordsys) IN
       /\ darrays' = r.darrays
       /\ prepPc' = IF r.raised THEN "raised2" ELSE "returned2"
       /\ prepErr' = IF r.raised THEN CoordinateSystemMismatch ELSE NoError
  /\ UNCHANGED <<coordsys, darrays0, darrays1, diskVars, fitVars, threadVars, sweepVars>>

NextPrep == PrepCall \/ PrepCallAgain

SpecPrep == InitPrep /\ [][NextPrep]_vars

(***************************************************************************)
(* MSMModel.fit and MSMModel.load_model.                                   *)
(***************************************************************************)
FitQuiet == fitPc \in {"idle", "returned", "raised"}
ThreadsIdle == \A t \in Threads : tpc[t] = "idle"

\* fit(source_data, target_data, mesh_file, output_dir): entering the with
\* block creates the temporary directory inside output_dir
FitCall(src, tgt, mesh) ==
  /\ FitQuiet /\ ThreadsIdle
  /\ \E d \in mkdtemp(OutputDir, dirs) :
       /\ dirs' = dirs \cup {d}
       /\ fitDir' = Some(d)
  /\ fitArgs' = Some([source_data |-> src, target_data |-> tgt, mesh_file |-> mesh])
  /\ fitPc' = "entered"
  /\ fitI' = 0
  /\ fitNames' = [source |-> << >>, target |-> << >>]
  /\ fitCoordsys' = None
  /\ fitRet' = None
  /\ fitErr' = NoError
  /\ msmStarted' = FALSE
  /\ mdlBefore' = mdl
  /\ UNCHANGED <<mdl, fs, prepVars, threadVars, sweepVars>>

\* an exception leaves the with block: the temporary directory is removed
FitRaise(e, files) ==
  /\ fs' = RemoveTree(files, fitDir[1])
  /\ dirs' = dirs \ {fitDir[1]}
  /\ fitErr' = e
  /\ fitPc' = "raised"

\* variant: the model's mesh_path and coordsys are set as soon as the mesh is read
FitLoadMeshSetsFields ==
  /\ fitPc = "entered"
  /\ IF fitArgs[1].mesh_file \in DOMAIN fs
     THEN /\ fitCoordsys' = fs[fitArgs[1].mesh_file].darrays[1].coordsys
          /\ fitPc' = "source"
          /\ mdl' = [mdl EXCEPT !.mesh_path = Some(fitArgs[1].mesh_file),
                                !.coordsys = fs[fitArgs[1].mesh_file].darrays[1].coordsys]
          /\ UNCHANGED <<fs, dirs, fitErr>>
     ELSE /\ FitRaise(OutputNotFound, fs)
          /\ UNCHANGED <<fitCoordsys, mdl>>
  /\ UNCHANGED <<mdlBefore, fitArgs, fitDir, fitI, fitNames, fitRet, msmStarted,
                 prepVars, threadVars, sweepVars>>

\* mesh = nib.load(mesh_file); coordsys = mesh.darrays[0].coordsys
FitLoadMesh ==
  /\ fitPc = "entered"
  /\ IF fitArgs[1].mesh_file \in DOMAIN fs
     THEN /\ fitCoordsys' = fs[fitArgs[1].mesh_file].darrays[1].coordsys
          /\ fitPc' = "source"
          /\ UNCHANGED <<fs, dirs, fitErr>>
     ELSE /\ FitRaise(OutputNotFound, fs)
          /\ UNCHANGED fitCoordsys
  /\ UNCHANGED <<mdl, mdlBefore, fitArgs, fitDir, fitI, fitNames, fitRet, msmStarted,
                 prepVars, threadVars, sweepVars>>

\* f"source_{i}.func.gii" / f"target_{i}.func.gii" up to the index
RoleStem(role) == IF role = "source" THEN "source_" ELSE "target_"

\* one iteration of the loop over source_data (role = "source") or over
\* target_data (role = "target"): the array gets the mesh's coordsys and is
\* written to {role}_{i}.func.gii
FitWrite(role, maps, nextPc) ==
  /\ fitPc = role
  /\ fitI < Len(maps)
  /\ LET filename == Path(fitDir[1], RoleStem(role), IndexStr(fitI), ".func.gii")
         contrast_data_array ==
           GiftiDataArray(maps[fitI + 1].data, NIFTI_TYPE_FLOAT32,
                          NIFTI_INTENT_POINTSET, fitCoordsys)
     IN /\ fitNames' = [fitNames EXCEPT ![role] = Append(@, filename)]
        /\ fs' = WriteFile(fs, filename, Image(<<contrast_data_array>>))
  /\ IF fitI + 1 = Len(maps)
     THEN fitI' = 0 /\ fitPc' = nextPc
     ELSE fitI' = fitI + 1 /\ fitPc' = fitPc
  /\ UNCHANGED <<dirs, mdl, mdlBefore, fitArgs, fitDir, fitCoordsys, fitRet, fitErr,
                 msmStarted, prepVars, threadVars, sweepVars>>

FitWriteSource == FitWrite("source", fitArgs[1].source_data, "target")
FitWriteTarget == FitWrite("target", fitArgs[1].target_data, "run")

\* run_msm(...) and the end of the with block
FitRunMsm ==
  /\ fitPc = "run"
  /\ msmStarted' = TRUE
  /\ \E r \in run_msm(fitNames.source, fitArgs[1].mesh_file, fitNames.target,
                      OutputDir, fs) :
       IF r.raised
       THEN /\ FitRaise(ExternalToolFailure(MsmCmd), r.files)
            /\ UNCHANGED fitRet
       ELSE /\ fs' = RemoveTree(r.files, fitDir[1])
            /\ dirs' = dirs \ {fitDir[1]}
            /\ fitRet' = r.ret
            /\ fitPc' = "registered"
            /\ UNCHANGED fitErr
  /\ UNCHANGED <<mdl, mdlBefore, fitArgs, fitDir, fitCoordsys, fitI, fitNames,
                 prepVars, threadVars, sweepVars>>

\* the assignments after the with block, and return self
FitAssign ==
  /\ fitPc = "registered"
  /\ mdl' = [transformed_mesh |-> Some(fitRet[1].transformed_mesh),
             transformed_mesh_path |-> Some(TransformedMeshFile(OutputDir)),
             transformed_func |-> Some(fitRet[1].transformed_func),
             mesh_path |-> Some(fitArgs[1].mesh_file),
             coordsys |-> fs[fitArgs[1].mesh_file].darrays[1].coordsys]
  /\ fitPc' = "returned"
  /\ UNCHANGED <<mdlBefore, fitArgs, fitDir, fitCoordsys, fitI, fitNames, fitRet,
                 fitErr, msmStarted, diskVars, prepVars, threadVars, sweepVars>>

\* load_model(model_filename, mesh) on a fresh model
LoadModel ==
  /\ fitPc = "idle" /\ ThreadsIdle
  /\ mdl = UnfittedModel
  /\ mdl' = [mdl EXCEPT !.transformed_mesh_path = Some(TransformedMeshFile(SweepDir(1))),
                        !.mesh_path = Some(MeshFile),
                        !.coordsys = fs[MeshFile].darrays[1].coordsys]
  /\ UNCHANGED <<mdlBefore, fitPc, fitArgs, fitDir, fitCoordsys, fitI, fitNames, fitRet,
                 fitErr, msmStarted, diskVars, prepVars, threadVars, sweepVars>>

NextFit ==
  \/ \E tgt \in TargetMapsChoices, mesh \in MeshChoices : FitCall(SourceMaps, tgt, mesh)
  \/ FitLoadMesh
  \/ FitWriteSource
  \/ FitWriteTarget
  \/ FitRunMsm
  \/ FitAssign
  \/ LoadModel

(***************************************************************************)
(* MSMModel.transform, called from each thread.                            *)
(***************************************************************************)
\* list.extend(iterable)
extend_nothing(list, iterable) == list

extend(list, iterable) == list \o iterable

\* the end of transform once os.system has returned: the exit-code check,
\* then nib.load(f"{transformed_path}.func.gii").darrays[0].data
TransformOutcome_missing_is_tool_failure(code, c, files) ==
  IF code # 0 \/ FuncGii(c.prefix) \notin DOMAIN files
  THEN [err |-> ExternalToolFailure(c), result |-> None]
  ELSE [err |-> NoError, result |-> Some(files[FuncGii(c.prefix)].darrays[1].data)]

TransformOutcome(code, c, files) ==
  IF code # 0 THEN [err |-> ExternalToolFailure(c), result |-> None]
  ELSE IF FuncGii(c.prefix) \notin DOMAIN files
       THEN [err |-> OutputNotFound, result |-> None]
       ELSE [err |-> NoError,
             result |-> Some(files[FuncGii(c.prefix)].darrays[1].data)]

\* transform(source_data): data_input = nib.load(source_data)
TCall(t, p) ==
  /\ tpc[t] = "idle"
  /\ FitQuiet
  /\ p \in DOMAIN fs
  /\ source_data' = [source_data EXCEPT ![t] = Some(p)]
  /\ data_input' = [data_input EXCEPT ![t] = fs[p].darrays]
  /\ tpc' = [tpc EXCEPT ![t] = "loaded"]
  /\ UNCHANGED <<dir_name, cmd, exit_code, result, err, diskVars, fitVars, prepVars,
                 sweepVars>>

\* data_input.darrays = prepare_darrays(data_input.darrays, self.coordsys), then
\* data_input.darrays.extend(prepare_darrays(data_input.darrays, self.coordsys))
TPrepare(t) ==
  /\ tpc[t] = "loaded"
  /\ IF mdl.coordsys = None
     THEN /\ err' = [err EXCEPT ![t] = NotFitted]
          /\ tpc' = [tpc EXCEPT ![t] = "raised"]
          /\ UNCHANGED data_input
     ELSE LET first == prepare_darrays(data_input[t], mdl.coordsys[1])
              second == prepare_darrays(first.darrays, mdl.coordsys[1])
          IN IF first.raised \/ second.raised
             THEN /\ err' = [err EXCEPT ![t] = CoordinateSystemMismatch]
                  /\ tpc' = [tpc EXCEPT ![t] = "raised"]
                  /\ data_input' = [data_input EXCEPT ![t] =
                                      IF first.raised THEN first.darrays
                                      ELSE second.darrays]
             ELSE /\ data_input' = [data_input EXCEPT ![t] =
                                      extend(second.darrays, second.darrays)]
                  /\ tpc' = [tpc EXCEPT ![t] = "prepared"]
                  /\ UNCHANGED err
  /\ UNCHANGED <<source_data, dir_name, cmd, exit_code, result, diskVars, fitVars,
                 prepVars, sweepVars>>

\* with TemporaryDirectory(dir="./") as dir_name
TEnter(t) ==
  /\ tpc[t] = "prepared"
  /\ \E d \in mkdtemp(Cwd, dirs) :
       /\ dirs' = dirs \cup {d}
       /\ dir_name' = [dir_name EXCEPT ![t] = Some(d)]
  /\ tpc' = [tpc EXCEPT ![t] = "in_tmp"]
  /\ UNCHANGED <<fs, source_data, data_input, cmd, exit_code, result, err, fitVars,
                 prepVars, sweepVars>>

\* an exception, or the return, leaves the with block
TLeave(t, files) ==
  /\ fs' = RemoveTree(files, dir_name[t][1])
  /\ dirs' = dirs \ {dir_name[t][1]}

\* data_input.to_filename(source_filename), and the command line
TWrite(t) ==
  /\ tpc[t] = "in_tmp"
  /\ LET source_filename == Path(dir_name[t][1], "input_test", "", ".func.gii")
         transformed_path == Path(dir_name[t][1], "transformed_contrast", "", "")
     IN IF dir_name[t][1] \in dirs
        THEN /\ fs' = WriteFile(fs, source_filename, Image(data_input[t]))
             /\ cmd' = [cmd EXCEPT ![t] =
                          Some(ResampleCmd(mdl.transformed_mesh_path[1], transformed_path,
                                           source_filename, mdl.mesh_path[1]))]
             /\ tpc' = [tpc EXCEPT ![t] = "written"]
             /\ UNCHANGED <<dirs, err>>
        ELSE /\ TLeave(t, fs)
             /\ err' = [err EXCEPT ![t] = OutputNotFound]
             /\ tpc' = [tpc EXCEPT ![t] = "raised"]
             /\ UNCHANGED cmd
  /\ UNCHANGED <<source_data, data_input, dir_name, exit_code, result, fitVars,
                 prepVars, sweepVars>>

\* exit_code = os.system(cmd)
TRun(t) ==
  /\ tpc[t] = "written"
  /\ \E o \in os_system(cmd[t][1], fs, dirs) :
       /\ exit_code' = [exit_code EXCEPT ![t] = Some(o.exit_code)]
       /\ fs' = o.files
  /\ tpc' = [tpc EXCEPT ![t] = "ran"]
  /\ UNCHANGED <<dirs, source_data, data_input, dir_name, cmd, result, err, fitVars,
                 prepVars, sweepVars>>

\* the exit-code check, the load of the output, and the end of the with block
TFinish(t) ==
  /\ tpc[t] = "ran"
  /\ LET o == TransformOutcome(exit_code[t][1], cmd[t][1], fs) IN
       /\ err' = [err EXCEPT ![t] = o.err]
       /\ result' = [result EXCEPT ![t] = o.result]
       /\ tpc' = [tpc EXCEPT ![t] = IF o.err = NoError THEN "returned" ELSE "raised"]
  /\ TLeave(t, fs)
  /\ UNCHANGED <<source_data, data_input, dir_name, cmd, exit_code, fitVars, prepVars,
                 sweepVars>>

NextTransform ==
  \E t \in Threads :
    \/ \E tag \in Tags : TCall(t, SourceFile(tag))
    \/ TPrepare(t)
    \/ TEnter(t)
    \/ TWrite(t)
    \/ TRun(t)
    \/ TFinish(t)

(***************************************************************************)
(* The test block of the sweep, for each epsilon.                          *)
(***************************************************************************)
\* the with block ends: TemporaryDirectory removes the directory it created
SweepLeave == dirs' = dirs \ {sweepTmp[1]}

SweepRaise(e) ==
  /\ SweepLeave
  /\ sweepErr' = e
  /\ sweepPc' = "raised"

\* with TemporaryDirectory(prefix='./') as dir_name, dir_name reassigned to
\* the output directory of this epsilon, the scores reset
SweepEnter ==
  /\ sweepPc = "epsilon"
  /\ \E d \in mkdtemp(SweepTmpBase, dirs) :
       /\ dirs' = dirs \cup {d}
       /\ sweepTmp' = Some(d)
  /\ scored' = [scored EXCEPT ![epsilon] = 0]
  /\ item' = 1
  /\ sweepPc' = "items"
  /\ UNCHANGED <<fs, test_data, epsilon, sweepInput, sweepCmd, sweepExit,
                 transformed_data, sweepErr, prepVars, fitVars, threadVars>>

\* the with block is left after the last test pair: next epsilon, or the end
SweepNextEpsilon ==
  /\ sweepPc = "items"
  /\ item > Len(test_data)
  /\ SweepLeave
  /\ IF epsilon < Len(epsilons)
     THEN epsilon' = epsilon + 1 /\ sweepPc' = "epsilon"
     ELSE epsilon' = epsilon /\ sweepPc' = "done"
  /\ UNCHANGED <<fs, test_data, item, sweepTmp, sweepInput, sweepCmd, sweepExit,
                 transformed_data, sweepErr, scored, prepVars, fitVars, threadVars>>

\* one test pair up to the command line: the input is loaded twice, both
\* copies are prepared, the second is appended and the file is written
SweepPrepare ==
  /\ sweepPc = "items"
  /\ item <= Len(test_data)
  /\ LET dir == SweepDir(epsilon)
         input_fname == test_data[item].input
         mesh_coordsys == fs[MeshFile].darrays[1].coordsys[1]
         first == prepare_darrays(fs[input_fname].darrays, mesh_coordsys)
         extra == prepare_darrays(fs[input_fname].darrays, mesh_coordsys)
         filename == Path(dir, "input_test", "", ".func.gii")
         test_transformed == Path(dir, "test_transformed_and_projected", input_fname.tag, "")
     IN IF first.raised \/ extra.raised
        THEN /\ SweepRaise(CoordinateSystemMismatch)
             /\ sweepInput' = first.darrays
             /\ UNCHANGED <<fs, sweepCmd>>
        ELSE /\ sweepInput' = extend(first.darrays, extra.darrays)
             /\ fs' = WriteFile(fs, filename, Image(extend(first.darrays, extra.darrays)))
             /\ sweepCmd' = Some(ResampleCmd(TransformedMeshFile(dir), test_transformed,
                                             filename, MeshFile))
             /\ sweepPc' = "written"
             /\ UNCHANGED <<dirs, sweepErr>>
  /\ transformed_data' = None
  /\ UNCHANGED <<test_data, epsilon, item, sweepTmp, sweepExit, scored, prepVars,
                 fitVars, threadVars>>

\* exit_code = os.system(cmd)
SweepRun ==
  /\ sweepPc = "written"
  /\ \E o \in os_system(sweepCmd[1], fs, dirs) :
       /\ sweepExit' = Some(o.exit_code)
       /\ fs' = o.files
  /\ sweepPc' = "ran"
  /\ UNCHANGED <<dirs, test_data, epsilon, item, sweepTmp, sweepInput, sweepCmd,
                 transformed_data, sweepErr, scored, prepVars, fitVars, threadVars>>

\* the exit-code check, the loads of the output and of the reference, both
\* prepared, and the two correlations added to the scores of this epsilon
SweepScore ==
  /\ sweepPc = "ran"
  /\ LET out == FuncGii(sweepCmd[1].prefix)
         mesh_coordsys == fs[MeshFile].darrays[1].coordsys[1]
     IN IF sweepExit[1] # 0
        THEN /\ SweepRaise(ExternalToolFailure(sweepCmd[1]))
             /\ UNCHANGED <<transformed_data, scored, item>>
        ELSE IF out \notin DOMAIN fs
        THEN /\ SweepRaise(OutputNotFound)
             /\ UNCHANGED <<transformed_data, scored, item>>
        ELSE LET transformed == prepare_darrays(fs[out].darrays, mesh_coordsys)
                 reference == prepare_darrays(fs[test_data[item].reference].darrays,
                                              mesh_coordsys)
             IN /\ transformed_data' = Some(Image(transformed.darrays))
                /\ IF transformed.raised \/ reference.raised
                   THEN /\ SweepRaise(CoordinateSystemMismatch)
                        /\ UNCHANGED <<scored, item>>
                   ELSE /\ scored' = [scored EXCEPT ![epsilon] = @ + 1]
                        /\ item' = item + 1
                        /\ sweepPc' = "items"
                        /\ UNCHANGED <<dirs, sweepErr>>
  /\ UNCHANGED <<fs, test_data, epsilon, sweepTmp, sweepInput, sweepCmd, sweepExit,
                 prepVars, fitVars, threadVars>>

NextSweep ==
  \/ SweepEnter
  \/ SweepPrepare
  \/ SweepRun
  \/ SweepScore
  \/ SweepNextEpsilon

Next == NextFit \/ NextTransform \/ NextSweep

Spec == Init /\ [][Next]_vars

(***************************************************************************)
(* Properties of prepare_darrays.                                          *)
(***************************************************************************)
\* c is a coordsys that differs from t in dataspace, xformspace or an xform entry
Differs(c, t) ==
  \/ c.dataspace # t.dataspace
  \/ c.xformspace # t.xformspace
  \/ \E i \in 1..16 : c.xform[i] # t.xform[i]

\* indices of the input elements whose non-null coordsys differs from the target
Offending == {i \in 1..Len(darrays0) :
                darrays0[i].coordsys # None /\ Differs(darrays0[i].coordsys[1], coordsys)}

\* d is d0 with float32 data, float32 datatype code and pointset intent
IsCoerced(d, d0) ==
  /\ d.data.dtype = "float32"
  /\ \A v \in DOMAIN d0.data.v : d.data.v[v] = Float32Of(d0.data.v[v])
  /\ d.datatype = NIFTI_TYPE_FLOAT32
  /\ d.intent = NIFTI_INTENT_POINTSET

\* C1: whenever some element of the list passed to prepare_darrays has a
\* non-null coordsys differing from the target in dataspace, xformspace or any
\* xform entry, the call raises the coordsys-mismatch error and does not return.
C1_MismatchRaises ==
  (prepPc # "input" /\ Offending # {})
    => (prepPc = "raised" /\ prepErr = CoordinateSystemMismatch)

\* a call has raised on an element that differs from the target in one xform
\* entry only
C1_Witness ==
  /\ prepPc = "raised"
  /\ \E i \in Offending :
       /\ darrays0[i].coordsys[1].dataspace = coordsys.dataspace
       /\ darrays0[i].coordsys[1].xformspace = coordsys.xformspace

\* C2: after a call that returned, every element whose coordsys was None has
\* coordsys = target and float32 data / float32 datatype / pointset intent; a
\* second call on that output with the same target never raises and leaves
\* every element as the first call left it.
C2_NoneAssignedIdempotent ==
  /\ prepPc \in {"returned", "returned2"} =>
       \A i \in 1..Len(darrays0) :
         darrays0[i].coordsys = None =>
           /\ darrays1[i].coordsys = Some(coordsys)
           /\ IsCoerced(darrays1[i], darrays0[i])
  /\ prepPc # "raised2"
  /\ prepPc = "returned2" => darrays = darrays1

\* the second call has returned on a list that held a float64 element without
\* coordsys whose data float32 cannot represent exactly
C2_Witness ==
  /\ prepPc = "returned2"
  /\ \E i \in 1..Len(darrays0) :
       /\ darrays0[i].coordsys = None
       /\ darrays0[i].data.dtype = "float64"
       /\ darrays1[i].data.v # darrays0[i].data.v

\* C10: when the call raises at the first offending index j, the elements
\* before j are fully normalized, element j is coerced but keeps its own
\* coordsys, and the elements after j are as they were passed in.
C10_PartialMutationOnRaise ==
  prepPc = "raised" =>
    \E j \in Offending :
      /\ \A i \in Offending : j <= i
      /\ Len(darrays) = Len(darrays0)
      /\ \A i \in 1..(j - 1) :
           IsCoerced(darrays[i], darrays0[i]) /\ darrays[i].coordsys = Some(coordsys)
      /\ IsCoerced(darrays[j], darrays0[j])
      /\ darrays[j].coordsys = darrays0[j].coordsys
      /\ \A i \in (j + 1)..Len(darrays0) : darrays[i] = darrays0[i]

\* a call has raised on its first element, which was float64, and the second
\* element still is float64 without coordsys
C10_Witness ==
  /\ prepPc = "raised"
  /\ Len(darrays0) = 2
  /\ 1 \in Offending
  /\ darrays0[1].data.dtype = "float64"
  /\ darrays[1].data.dtype = "float32"
  /\ darrays[2].data.dtype = "float64"
  /\ darrays[2].coordsys = None

(***************************************************************************)
(* Properties of fit, transform and the sweep.                             *)
(***************************************************************************)
Done == {"returned", "raised"}
InScope == {"in_tmp", "written", "ran"}

\* C3: a fit whose reference arrays are in a coordsys other than the mesh's
\* (the mesh being readable) never reaches run_msm, and ends by raising the
\* coordsys-mismatch error.
C3_MismatchedReferenceRejectedBeforeMsm ==
  (/\ fitArgs # None
   /\ fitArgs[1].mesh_file \in DOMAIN fs
   /\ \E i \in DOMAIN fitArgs[1].target_data :
        Differs(fitArgs[1].target_data[i].coordsys,
                fs[fitArgs[1].mesh_file].darrays[1].coordsys[1]))
    => /\ ~msmStarted
       /\ fitPc \in Done => (fitPc = "raised" /\ fitErr = CoordinateSystemMismatch)

\* C4: once transform, or a test pair of the sweep, is past a nonzero exit of
\* the resampling binary, it has raised the tool-failure error whose message
\* carries the command that was run, and no output was loaded or returned.
C4_NonzeroExitRaisesWithCommand ==
  /\ \A t \in Threads :
       (tpc[t] \in Done /\ exit_code[t] # None /\ exit_code[t][1] # 0)
         => /\ tpc[t] = "raised"
            /\ err[t].type = "RuntimeError"
            /\ err[t].cmd = cmd[t]
            /\ result[t] = None
  /\ (sweepPc \notin {"ran", "absent"} /\ sweepExit # None /\ sweepExit[1] # 0)
       => /\ sweepPc = "raised"
          /\ sweepErr.type = "RuntimeError"
          /\ sweepErr.cmd = sweepCmd
          /\ transformed_data = None

\* a transform has raised after the binary exited nonzero
C4_Witness ==
  \E t \in Threads :
    tpc[t] = "raised" /\ exit_code[t] = Some(ExitFailure) /\ cmd[t] # None

\* C5: when transform goes on after a zero exit and the file
\* <output_prefix>.func.gii does not exist, it raises the output-not-found
\* error, whose class is not the tool-failure one, and returns nothing.
C5_MissingOutputRaisesDistinctError ==
  [][\A t \in Threads :
       (/\ tpc[t] = "ran" /\ tpc'[t] # "ran"
        /\ exit_code[t] = Some(0)
        /\ FuncGii(cmd[t][1].prefix) \notin DOMAIN fs)
         => /\ tpc'[t] = "raised"
            /\ err'[t].type = "FileNotFoundError"
            /\ err'[t].type # ExternalToolFailure(cmd[t][1]).type
            /\ result'[t] = None]_vars

\* a transform has raised the output-not-found error after a zero exit
C5_Witness ==
  \E t \in Threads :
    tpc[t] = "raised" /\ exit_code[t] = Some(0) /\ err[t] = OutputNotFound

\* C6: when fit, transform or the with block of one sweep iteration is left,
\* by return or by exception, the temporary directory it created is gone and
\* no source_{i}, target_{i} or input_test file it wrote is left on disk.
C6_NoScopedLeftovers ==
  [][/\ (fitPc \notin Done /\ fitPc' \in Done)
          => /\ fitDir[1] \notin dirs'
             /\ \A p \in DOMAIN fs' : p.stem \notin {"source_", "target_"}
     /\ \A t \in Threads :
          (tpc[t] \in InScope /\ tpc'[t] \in Done)
            => /\ dir_name[t][1] \notin dirs'
               /\ \A p \in DOMAIN fs' : p.dir # dir_name[t][1]
     /\ (sweepPc \in {"items", "written", "ran"}
           /\ sweepPc' \in {"epsilon", "done", "raised"})
          => /\ sweepTmp[1] \notin dirs'
             /\ \A p \in DOMAIN fs' : p.stem # "input_test"]_vars

\* C7: while the file transform (or the sweep) wrote for the binary is on
\* disk and the source file holds a single data array, the file holds exactly
\* two data arrays, equal to each other and to the normalized original.
C7_SingleFeatureDuplicated ==
  /\ \A t \in Threads :
       (tpc[t] \in {"written", "ran"} /\ Len(fs[source_data[t][1]].darrays) = 1)
         => LET f == fs[cmd[t][1].labels].darrays
                original == fs[source_data[t][1]].darrays[1]
            IN /\ Len(f) = 2
               /\ f[1] = f[2]
               /\ IsCoerced(f[1], original)
               /\ f[1].coordsys = mdl.coordsys
  /\ (sweepPc \in {"written", "ran"} /\ Len(fs[test_data[item].input].darrays) = 1)
       => LET f == fs[sweepCmd[1].labels].darrays
              original == fs[test_data[item].input].darrays[1]
          IN /\ Len(f) = 2
             /\ f[1] = f[2]
             /\ IsCoerced(f[1], original)
             /\ f[1].coordsys = fs[MeshFile].darrays[1].coordsys

\* a transform has written the file for a float64 single-array source
\* without coordsys
C7_Witness ==
  \E t \in Threads :
    /\ tpc[t] = "written"
    /\ fs[source_data[t][1]].darrays = <<Darray(Data64, None)>>

C9_ConcurrentTransformsIsolated ==
  /\ \A t1, t2 \in Threads :
       (t1 # t2 /\ tpc[t1] \in InScope /\ tpc[t2] \in InScope)
         => dir_name[t1] # dir_name[t2]
  /\ \A t \in Threads :
       tpc[t] \in {"written", "ran"}
         => /\ cmd[t][1].labels \in DOMAIN fs
            /\ cmd[t][1].labels.dir = dir_name[t][1]
            /\ cmd[t][1].prefix.dir = dir_name[t][1]
            /\ fs[cmd[t][1].labels] = Image(data_input[t])
  /\ \A t \in Threads :
       tpc[t] = "returned"
         => result[t] =
              Some(ReverseVertices(AsFloat32(fs[source_data[t][1]].darrays[1].data)))

\* both calls are past os.system at once, on different sources
C9_Witness ==
  /\ tpc[1] = "ran" /\ tpc[2] = "ran"
  /\ source_data[1] # source_data[2]
  /\ exit_code[1] = Some(0) /\ exit_code[2] = Some(0)

====
